---- MODULE Spec2Model ----
(***************************************************************************)
(* Mixed-precision quantized kernels of CMSIS_NN-INTQ:                     *)
(*   arm_depthwise_separable_conv_HWC_u8_u2_u8_thr   (family "dw")         *)
(*   arm_nn_mat_mult_kernel_reordered_u8_int16_u4     (family "mm")        *)
(*   arm_nn_mat_mult_kernel_reordered_u8_int16_u4_thr (family "mm")        *)
(*   arm_nn_mat_mult_kernel_reordered_u4_int16_u2     (family "mm")        *)
(* and the requantization / packing expressions of those kernels applied   *)
(* to full-range accumulators (family "rq").                               *)
(*                                                                         *)
(* A 32-bit SIMD word is a sequence of its four bytes, least significant   *)
(* first; a pair of 16-bit lanes is <<low lane, high lane>> of signed      *)
(* values.  Arrays are functions from 0-based indices.                     *)
(***************************************************************************)
EXTENDS Integers, Sequences, FiniteSets, TLC

VARIABLES
    family,        \* which function this behaviour runs: "dw", "mm", "rq", "cv"
    \* ---- requantization expressions on their own
    rq_pc, rq_in, rq_out,
    \* ---- arm_depthwise_separable_conv_HWC_u8_u2_u8_thr
    dw_pc, dw_arg, colBuffer, pBuffer, Im_out, dw_pOut, i_out_y, i_out_x,
    rowCnt, row_shift, dw_pBias, ch_out_id, row_per_byte_out, dw_acc,
    dw_thrIdx, dw_wrOut, dw_wrBuf, dw_status,
    \* ---- arm_nn_mat_mult_kernel_reordered_*
    mm_pc, mm_arg, mm_out, mm_pOut, mm_pOut2, mm_pA, mm_i, z_a_offset,
    z_a_offset2, mm_acc, mm_thrIdx, mm_wr, mm_rowStart, mm_ret,
    \* ---- arm_u2_to_int16_reordered
    cv_pc, cv_arg, pDst, pIn, blkCnt, in_32, cv_unrolled

rqVars == <<rq_pc, rq_in, rq_out>>
dwVars == <<dw_pc, dw_arg, colBuffer, pBuffer, Im_out, dw_pOut, i_out_y,
            i_out_x, rowCnt, row_shift, dw_pBias, ch_out_id,
            row_per_byte_out, dw_acc, dw_thrIdx, dw_wrOut, dw_wrBuf,
            dw_status>>
mmVars == <<mm_pc, mm_arg, mm_out, mm_pOut, mm_pOut2, mm_pA, mm_i,
            z_a_offset, z_a_offset2, mm_acc, mm_thrIdx, mm_wr, mm_rowStart,
            mm_ret>>
\* pDst is the sequence of int16 stored through the destination pointer so
\* far, cv_unrolled how many of them the unrolled loop stored
cvVars == <<cv_pc, cv_arg, pDst, pIn, blkCnt, in_32, cv_unrolled>>

vars == <<family, rqVars, dwVars, mmVars, cvVars>>

-----------------------------------------------------------------------------
(* Integer helpers.  Values are kept inside the signed 32-bit range, which  *)
(* is also the range of the model checker's integers, so every operator     *)
(* below works on 16-bit halves where a 32-bit intermediate could overflow. *)

INT32_MAX == 2147483647
INT32_MIN == -2147483647 - 1
INT16_MAX == 32767
INT16_MIN == -32768

Pow2(n) == 2^n

Min(a, b) == IF a <= b THEN a ELSE b
Max(a, b) == IF a >= b THEN a ELSE b

RECURSIVE SumTo(_, _)
\* F[0] + ... + F[n-1]
SumTo(F, n) == IF n <= 0 THEN 0 ELSE F[n - 1] + SumTo(F, n - 1)

\* (int16_t) x : keep the low 16 bits, read as two's complement
ToInt16(x) == (((x % 65536) + 32768) % 65536) - 32768

\* (int8_t) x : keep the low 8 bits, read as two's complement
ToInt8(x) == (((x % 256) + 128) % 256) - 128

\* (uint8_t) x : keep the low 8 bits
ToUint8(x) == x % 256

Hi16(x) == x \div 65536
Lo16(x) == x % 65536

\* x << n for 0 <= n < 16 on a 32-bit register (bits shifted out are lost)
ShlSmall(x, n) == LET l == Lo16(x) * 2^n
                      h == Hi16(x) * 2^n + (l \div 65536)
                  IN  ToInt16(h) * 65536 + (l % 65536)

\* x << n on a 32-bit register, 0 <= n
Shl32(x, n) == IF n < 16 THEN ShlSmall(x, n)
               ELSE IF n < 32 THEN ShlSmall(ToInt16(Lo16(x)) * 65536, n - 16)
               ELSE 0

\* x >> n, arithmetic (sign-filling), 0 <= n
Asr32(x, n) == IF n <= 30 THEN x \div 2^n ELSE IF x < 0 THEN -1 ELSE 0

\* floor(al * bl / 2^16) for 0 <= al, bl < 2^16, without leaving 32 bits
MulHiU16(al, bl) ==
    LET a1 == al \div 256  a0 == al % 256
        b1 == bl \div 256  b0 == bl % 256
    IN  a1 * b1 + (((a1 * b0 + a0 * b1) * 256 + a0 * b0) \div 65536)

\* __HI_SMULL(a, b): the high 32 bits of the signed 64-bit product a * b
HI_SMULL(a, b) ==
    LET ah == Hi16(a)  al == Lo16(a)
        bh == Hi16(b)  bl == Lo16(b)
        x1 == ah * bl
        x2 == al * bh
        c  == ((x1 % 65536) + (x2 % 65536) + MulHiU16(al, bl)) \div 65536
    IN  ah * bh + (x1 \div 65536) + (x2 \div 65536) + c

\* __USAT(x, n): saturate to the unsigned n-bit range
USAT(x, n) == IF x < 0 THEN 0 ELSE IF x > Pow2(n) - 1 THEN Pow2(n) - 1 ELSE x

RECURSIVE BitAnd(_, _)
BitAnd(x, y) == IF x = 0 \/ y = 0 THEN 0
                ELSE (IF x % 2 = 1 /\ y % 2 = 1 THEN 1 ELSE 0)
                     + 2 * BitAnd(x \div 2, y \div 2)

RECURSIVE BitOr(_, _)
BitOr(x, y) == IF x = 0 THEN y ELSE IF y = 0 THEN x
               ELSE (IF x % 2 = 1 \/ y % 2 = 1 THEN 1 ELSE 0)
                    + 2 * BitOr(x \div 2, y \div 2)

\* the code in the n-bit lane `lane' of a packed byte
Lane(byte, lane, n) == (byte \div Pow2(lane * n)) % Pow2(n)

-----------------------------------------------------------------------------
(* DSP intrinsics on byte sequences and lane pairs.                         *)

\* *__SIMD32(p): the four bytes at p
SIMD32(mem, p) == <<mem[p], mem[p + 1], mem[p + 2], mem[p + 3]>>

\* __ROR(w, 8)
ROR8(w) == <<w[2], w[3], w[4], w[1]>>

\* __UXTB16(w): bytes 0 and 2, zero-extended into the two lanes
UXTB16(w) == <<w[1], w[3]>>

\* __PKHBT(x, y, 16): low halfword of x, low halfword of y moved to the top
PKHBT16(x, y) == <<x[1], x[2], y[1], y[2]>>

\* __PKHTB(x, y, 16): high halfword of x on top, high halfword of y below
PKHTB16(x, y) == <<y[3], y[4], x[3], x[4]>>

\* __SSUB16(x, y): lane-wise 16-bit subtraction
SSUB16(x, y) == <<ToInt16(x[1] - y[1]), ToInt16(x[2] - y[2])>>

\* __SMLAD(x, y, sum): sum + x.lo * y.lo + x.hi * y.hi
SMLAD(x, y, sum) == sum + x[1] * y[1] + x[2] * y[2]

-----------------------------------------------------------------------------
(* Requantization and packing, as the kernels write them.                   *)

\* negative n_zero handling: the left pre-shift n_zero1
NZero1(n_zero) == IF n_zero > 0 THEN 0 ELSE ToInt8(-n_zero)

\* negative n_zero handling: the right post-shift n_zero2
NZero2(n_zero) == IF n_zero > 0 THEN n_zero ELSE 0

\* the requantization with the accumulator narrowed to int16_t first, as
\* the threshold kernels narrow theirs
AffineRequant_i16(sum, m_zero, n_zero, z_out) ==
    Asr32(HI_SMULL(Shl32(ToInt16(sum), NZero1(n_zero)), m_zero),
          NZero2(n_zero)) + z_out

\* PACT+FW: ((__HI_SMULL(sum << n_zero1, m_zero)) >> n_zero2) + z_out
AffineRequant(sum, m_zero, n_zero, z_out) ==
    Asr32(HI_SMULL(Shl32(sum, NZero1(n_zero)), m_zero), NZero2(n_zero)) + z_out

PackU4_wrap(sum, sum3) ==
    BitOr(BitAnd(ToUint8(sum), 15), BitAnd(ToUint8(sum3) * 16, 240))

\* (__USAT(sum, 4) & 0x0F) | ((__USAT(sum3, 4) << 4) & 0xF0)
PackU4(sum, sum3) ==
    BitOr(BitAnd(USAT(sum, 4), 15), BitAnd(USAT(sum3, 4) * 16, 240))

\* even row pair: (__USAT(sum, 2) & 0x03) | ((__USAT(sum3, 2) << 2) & 0x0C)
PackU2Lo(sum, sum3) ==
    BitOr(BitAnd(USAT(sum, 2), 3), BitAnd(USAT(sum3, 2) * 4, 12))

\* the odd row pair stored without or-ing the byte already there
PackU2Hi_fresh(sum, sum3, old) ==
    BitOr(BitAnd(USAT(sum, 2) * 16, 48), BitAnd(USAT(sum3, 2) * 64, 192))

\* odd row pair:
\* ((__USAT(sum, 2) << 4) & 0x30 | (__USAT(sum3, 2) << 6) & 0xC0) | *pOut
PackU2Hi(sum, sum3, old) ==
    BitOr(BitOr(BitAnd(USAT(sum, 2) * 16, 48), BitAnd(USAT(sum3, 2) * 64, 192)),
          old)

\* __int16_to_u2(x, thr): the number of the 3 breakpoints at thr[base..]
\* that x reaches
int16_to_u2(x, thr, base) == Cardinality({k \in 0..2 : x >= thr[base + k]})

\* __int16_to_u4(x, thr): the number of the 15 breakpoints at thr[base..]
\* that x reaches
int16_to_u4(x, thr, base) == Cardinality({k \in 0..14 : x >= thr[base + k]})

ThrIdxU2_dense(ch) == ch * 3

\* &thresholds[ch << 2]
ThrIdxU2(ch) == ch * 4

ThrIdxU4_dense(ch) == ch * 15

\* &thresholds[ch << 4]
ThrIdxU4(ch) == ch * 16

\* __int16_to_u2((int16_t) sum, &thresholds[ch << 2])
QuantU2(sum, thr, ch) == int16_to_u2(ToInt16(sum), thr, ThrIdxU2(ch))

\* __int16_to_u4((int16_t) sum, &thresholds[ch << 4])
QuantU4(sum, thr, ch) == int16_to_u4(ToInt16(sum), thr, ThrIdxU4(ch))

\* the byte packed from the first three codes only
PackThrU2_three(qsum, qsum2, qsum3, qsum4) ==
    BitOr(BitOr(USAT(qsum, 2), USAT(qsum2, 2) * 4), USAT(qsum3, 2) * 16)

\* __USAT(qsum,2) | __USAT(qsum2,2) << 2 | __USAT(qsum3,2) << 4
\*                | __USAT(qsum4,2) << 6
PackThrU2(qsum, qsum2, qsum3, qsum4) ==
    BitOr(BitOr(USAT(qsum, 2), USAT(qsum2, 2) * 4),
          BitOr(USAT(qsum3, 2) * 16, USAT(qsum4, 2) * 64))

\* (qsum & 0x0F) | ((qsum3 << 4) & 0xF0)
PackThrU4(qsum, qsum3) == BitOr(BitAnd(qsum, 15), BitAnd(qsum3 * 16, 240))

-----------------------------------------------------------------------------
(* Bounds of the model and the inputs drawn within them.                    *)

MaxDimIn  == 2     \* dim_im_in  in 1..MaxDimIn
MaxDimOut == 2     \* dim_im_out in 1..MaxDimOut
MaxCh     == 5     \* ch_im_in   in 1..MaxCh
MaxKernel == 3     \* dim_kernel in 1..MaxKernel
NumSeeds  == 2     \* data patterns 1..NumSeeds

\* left_padding and top_padding, each on its own
PadSet == {0, 1}

StrideSet == {1, 2}

\* u8 codes the tensors are filled with
U8Pal == <<0, 1, 2, 7, 128, 200, 254, 255>>

\* int32 biases
BiasPal == <<-70000, -3, 10, 40000>>

\* (z_in, z_wt) pairs: codes below and above each zero point occur
ZPairs == {<<0, 0>>, <<3, 128>>, <<255, 2>>}

PatU8(seed, a, i) == U8Pal[((seed * a + i * (2 * seed + 1)) % Len(U8Pal)) + 1]

\* a flat, ascending table of int16 breakpoints (seed 0 mod 3: all zero)
PatThr(seed, i) == (seed % 3) * (-300 + 150 * i)

DwArgs ==
    { [dim_im_in |-> d, ch_im_in |-> ci, ch_im_out |-> co, dim_kernel |-> k,
       left_padding |-> lp, top_padding |-> tp, stride |-> st,
       dim_im_out |-> o, z_in |-> z[1], z_wt |-> z[2],
       Im_in |-> [i \in 0..(d * d * ci - 1) |-> PatU8(sd, 3, i)],
       wt |-> [i \in 0..(k * k * ci - 1) |-> PatU8(sd, 1, i + 1)],
       bias |-> [c \in 0..(co - 1) |-> BiasPal[((sd + c) % Len(BiasPal)) + 1]],
       thresholds |-> [i \in 0..(4 * co - 1) |-> PatThr(sd, i)],
       junk |-> 85 * (sd % 4)] :
      d \in 1..MaxDimIn, ci \in 1..MaxCh, co \in 1..MaxCh, k \in 1..MaxKernel,
      lp \in PadSet, tp \in PadSet, st \in StrideSet,
      o \in 1..MaxDimOut, z \in ZPairs, sd \in 1..NumSeeds }

\* the 5x5, 4-channel, 3x3-kernel convolution with zero weights and zero
\* zero points. `thresholds' is the memory from the table's first entry on:
\* twelve zero breakpoints, three per channel, and the four int16 after them,
\* which are zero as well or hold something else.
DwScenarioArgs ==
    { [dim_im_in |-> 5, ch_im_in |-> 4, ch_im_out |-> 4, dim_kernel |-> 3,
       left_padding |-> 1, top_padding |-> 1, stride |-> 1,
       dim_im_out |-> 5, z_in |-> 0, z_wt |-> 0,
       Im_in |-> [i \in 0..99 |-> PatU8(sd, 3, i)],
       wt |-> [i \in 0..35 |-> 0],
       bias |-> [c \in 0..3 |-> 10 * (c + 1)],
       thresholds |-> [i \in 0..15 |-> IF i < 12 THEN 0 ELSE pv],
       junk |-> 85] :
      sd \in 0..NumSeeds, pv \in {-100, 0, 100} }

\* bytes of the packed u2 output tensor, 4 channels per byte
DwOutLen(arg) == arg.dim_im_out * arg.dim_im_out * ((arg.ch_im_out + 3) \div 4)

\* bytes of the staging buffer: one receptive field
DwBufLen(arg) == arg.dim_kernel * arg.dim_kernel * arg.ch_im_in

-----------------------------------------------------------------------------
(* arm_depthwise_separable_conv_HWC_u8_u2_u8_thr                            *)

DwSizeMismatch_lt(arg) == arg.ch_im_in < arg.ch_im_out

\* "do some checking here, basically ch_im_in == ch_im_out"
DwSizeMismatch(arg) == arg.ch_im_in # arg.ch_im_out

\* im2col with the left padding applied to rows and the top padding to
\* columns
DwStage_swapped(arg, y, x) ==
    [s \in 0..(DwBufLen(arg) - 1) |->
        LET c  == s % arg.ch_im_in
            p  == s \div arg.ch_im_in
            i_ker_y == y * arg.stride - arg.left_padding + (p \div arg.dim_kernel)
            i_ker_x == x * arg.stride - arg.top_padding + (p % arg.dim_kernel)
        IN  IF i_ker_y < 0 \/ i_ker_y >= arg.dim_im_in
               \/ i_ker_x < 0 \/ i_ker_x >= arg.dim_im_in
            THEN 0
            ELSE arg.Im_in[(i_ker_y * arg.dim_im_in + i_ker_x) * arg.ch_im_in + c]]

\* im2col of output position (y, x): slot ((ky * k + kx) * ch + c)
DwStage(arg, y, x) ==
    [s \in 0..(DwBufLen(arg) - 1) |->
        LET c  == s % arg.ch_im_in
            p  == s \div arg.ch_im_in
            i_ker_y == y * arg.stride - arg.top_padding + (p \div arg.dim_kernel)
            i_ker_x == x * arg.stride - arg.left_padding + (p % arg.dim_kernel)
        IN  IF i_ker_y < 0 \/ i_ker_y >= arg.dim_im_in
               \/ i_ker_x < 0 \/ i_ker_x >= arg.dim_im_in
            THEN 0
            ELSE arg.Im_in[(i_ker_y * arg.dim_im_in + i_ker_x) * arg.ch_im_in + c]]

\* one pass of the paired loop, t-th pair of kernel positions: the four
\* products added to sum, sum2, sum3, sum4
DwPairTerms(arg, buf, shift, t) ==
    LET ch   == arg.ch_im_in
        pB   == shift + 2 * t * ch
        pA   == shift + 2 * t * ch
        b1   == SIMD32(buf, pB)
        b2   == SIMD32(buf, pB + ch)
        inB2 == PKHTB16(b2, b1)
        inB1 == PKHBT16(b1, b2)
        a1   == SIMD32(arg.wt, pA)
        a2   == SIMD32(arg.wt, pA + ch)
        inA2 == PKHTB16(a2, a1)
        inA1 == PKHBT16(a1, a2)
        inz_wt == <<arg.z_wt, arg.z_wt>>
        inz_in == <<arg.z_in, arg.z_in>>
    IN  << SMLAD(SSUB16(UXTB16(inA1), inz_wt), SSUB16(UXTB16(inB1), inz_in), 0),
           SMLAD(SSUB16(UXTB16(ROR8(inA1)), inz_wt),
                 SSUB16(UXTB16(ROR8(inB1)), inz_in), 0),
           SMLAD(SSUB16(UXTB16(inA2), inz_wt), SSUB16(UXTB16(inB2), inz_in), 0),
           SMLAD(SSUB16(UXTB16(ROR8(inA2)), inz_wt),
                 SSUB16(UXTB16(ROR8(inB2)), inz_in), 0) >>

\* the single-position tail after colCnt pairs
DwTailTerms(arg, buf, shift, colCnt) ==
    LET ch  == arg.ch_im_in
        inA == SIMD32(arg.wt, shift + 2 * colCnt * ch)
        inB == SIMD32(buf, shift + 2 * colCnt * ch)
    IN  [n \in 1..4 |-> (inA[n] - arg.z_wt) * (inB[n] - arg.z_in)]

DwGroupSums_notail(arg, buf, shift, pBias) ==
    LET colCnt == (arg.dim_kernel * arg.dim_kernel) \div 2
        pairs  == [t \in 0..(colCnt - 1) |-> DwPairTerms(arg, buf, shift, t)]
    IN  [n \in 1..4 |->
            arg.bias[pBias + n - 1]
            + SumTo([t \in 0..(colCnt - 1) |-> pairs[t][n]], colCnt)]

\* sum, sum2, sum3, sum4 of one 4-channel pass, as handed to requantization
DwGroupSums(arg, buf, shift, pBias) ==
    LET colCnt == (arg.dim_kernel * arg.dim_kernel) \div 2
        odd    == (arg.dim_kernel * arg.dim_kernel) % 2
        pairs  == [t \in 0..(colCnt - 1) |-> DwPairTerms(arg, buf, shift, t)]
        tail   == DwTailTerms(arg, buf, shift, colCnt)
    IN  [n \in 1..4 |->
            arg.bias[pBias + n - 1]
            + SumTo([t \in 0..(colCnt - 1) |-> pairs[t][n]], colCnt)
            + (IF odd = 1 THEN tail[n] ELSE 0)]

\* sum of one remainder channel: A1 and B1 are uint8_t, so A1 -= z_wt and
\* B1 -= z_in wrap modulo 256 before the product
DwRemSum(arg, buf, shift, pBias) ==
    LET ch     == arg.ch_im_in
        colCnt == arg.dim_kernel * arg.dim_kernel
    IN  arg.bias[pBias]
        + SumTo([p \in 0..(colCnt - 1) |->
                    ToUint8(USAT(arg.wt[shift + p * ch], 8) - arg.z_wt)
                    * ToUint8(buf[shift + p * ch] - arg.z_in)], colCnt)

\* the byte the remainder switch stores through pOut
DwRemStore(old, qsum, rpb) ==
    CASE rpb = 4 -> USAT(qsum, 2)
      [] rpb = 3 -> BitOr(old, USAT(qsum, 2) * 4)
      [] rpb = 2 -> BitOr(old, USAT(qsum, 2) * 16)
      [] rpb = 1 -> BitOr(old, USAT(qsum, 2) * 64)
      [] OTHER   -> old

DwIdle ==
    /\ dw_pc = "off" /\ dw_arg = <<>> /\ colBuffer = <<>> /\ pBuffer = 0
    /\ Im_out = <<>> /\ dw_pOut = 0 /\ i_out_y = 0 /\ i_out_x = 0
    /\ rowCnt = 0 /\ row_shift = 0 /\ dw_pBias = 0 /\ ch_out_id = 0
    /\ row_per_byte_out = 0 /\ dw_acc = <<>> /\ dw_thrIdx = <<>>
    /\ dw_wrOut = {} /\ dw_wrBuf = {} /\ dw_status = "none"

\* the state at entry: nothing staged, nothing stored, buffers hold junk
DwInit ==
    /\ dw_pc = "entry"
    /\ dw_arg \in {r \in DwArgs : r.ch_im_out \in {r.ch_im_in, (r.ch_im_in % MaxCh) + 1}}
                   \cup DwScenarioArgs
    /\ colBuffer = [s \in 0..(DwBufLen(dw_arg) - 1) |-> dw_arg.junk]
    /\ Im_out = [i \in 0..(DwOutLen(dw_arg) - 1) |-> dw_arg.junk]
    /\ pBuffer = 0 /\ dw_pOut = 0 /\ i_out_y = 0 /\ i_out_x = 0
    /\ rowCnt = 0 /\ row_shift = 0 /\ dw_pBias = 0 /\ ch_out_id = 0
    /\ row_per_byte_out = 0 /\ dw_acc = <<>> /\ dw_thrIdx = <<>>
    /\ dw_wrOut = {} /\ dw_wrBuf = {} /\ dw_status = "none"

\* the size check and the entry into the position loops
DW_Check ==
    /\ dw_pc = "entry"
    /\ IF DwSizeMismatch(dw_arg)
       THEN dw_pc' = "done" /\ dw_status' = "ARM_MATH_SIZE_MISMATCH"
       ELSE IF dw_arg.dim_im_out > 0
            THEN dw_pc' = "im2col" /\ dw_status' = dw_status
            ELSE dw_pc' = "done" /\ dw_status' = "ARM_MATH_SUCCESS"
    /\ UNCHANGED <<family, dw_arg, colBuffer, pBuffer, Im_out, dw_pOut,
                   i_out_y, i_out_x, rowCnt, row_shift, dw_pBias, ch_out_id,
                   row_per_byte_out, dw_acc, dw_thrIdx, dw_wrOut, dw_wrBuf>>
    /\ UNCHANGED <<rqVars, mmVars, cvVars>>

\* "we first do im2col here", then the set-up of the channel loops
DW_Im2col ==
    /\ dw_pc = "im2col"
    /\ LET st  == DwStage(dw_arg, i_out_y, i_out_x)
           len == DwBufLen(dw_arg)
       IN  /\ colBuffer' = [s \in DOMAIN colBuffer |->
                               IF s - pBuffer \in 0..(len - 1)
                               THEN st[s - pBuffer] ELSE colBuffer[s]]
           /\ dw_wrBuf' = dw_wrBuf \cup {pBuffer + s : s \in 0..(len - 1)}
           /\ pBuffer' = pBuffer + len
    /\ rowCnt' = dw_arg.ch_im_out \div 4
    /\ row_shift' = 0
    /\ dw_pBias' = 0
    /\ ch_out_id' = 0
    /\ dw_acc' = <<>>
    /\ dw_thrIdx' = <<>>
    /\ dw_pc' = "ch4"
    /\ UNCHANGED <<family, dw_arg, Im_out, dw_pOut, i_out_y, i_out_x,
                   row_per_byte_out, dw_wrOut, dw_status>>
    /\ UNCHANGED <<rqVars, mmVars, cvVars>>

\* one 4-channel unrolled pass: accumulate, threshold, pack, store
DW_Ch4 ==
    /\ dw_pc = "ch4"
    /\ rowCnt > 0
    /\ LET sums == DwGroupSums(dw_arg, colBuffer, row_shift, dw_pBias)
           q    == [n \in 1..4 |->
                      QuantU2(sums[n], dw_arg.thresholds, ch_out_id + n - 1)]
       IN  /\ Im_out' = [Im_out EXCEPT
                           ![dw_pOut] = PackThrU2(q[1], q[2], q[3], q[4])]
           /\ dw_acc' = dw_acc \o <<sums[1], sums[2], sums[3], sums[4]>>
    /\ dw_thrIdx' = dw_thrIdx \o <<ThrIdxU2(ch_out_id), ThrIdxU2(ch_out_id + 1),
                                   ThrIdxU2(ch_out_id + 2), ThrIdxU2(ch_out_id + 3)>>
    /\ dw_wrOut' = dw_wrOut \cup {dw_pOut}
    /\ dw_pOut' = dw_pOut + 1
    /\ dw_pBias' = dw_pBias + 4
    /\ ch_out_id' = ch_out_id + 4
    /\ row_shift' = row_shift + 4
    /\ rowCnt' = rowCnt - 1
    /\ UNCHANGED <<family, dw_pc, dw_arg, colBuffer, pBuffer, i_out_y, i_out_x,
                   row_per_byte_out, dw_wrBuf, dw_status>>
    /\ UNCHANGED <<rqVars, mmVars, cvVars>>

\* between the two channel loops
DW_Ch4Done ==
    /\ dw_pc = "ch4"
    /\ rowCnt = 0
    /\ row_per_byte_out' = 4
    /\ rowCnt' = dw_arg.ch_im_out % 4
    /\ dw_pc' = "ch1"
    /\ UNCHANGED <<family, dw_arg, colBuffer, pBuffer, Im_out, dw_pOut, i_out_y,
                   i_out_x, row_shift, dw_pBias, ch_out_id, dw_acc, dw_thrIdx,
                   dw_wrOut, dw_wrBuf, dw_status>>
    /\ UNCHANGED <<rqVars, mmVars, cvVars>>

\* one channel of the remainder loop
DW_Ch1 ==
    /\ dw_pc = "ch1"
    /\ rowCnt > 0
    /\ LET sum  == DwRemSum(dw_arg, colBuffer, row_shift, dw_pBias)
           qsum == QuantU2(sum, dw_arg.thresholds, ch_out_id)
       IN  /\ Im_out' = [Im_out EXCEPT ![dw_pOut] =
                            DwRemStore(Im_out[dw_pOut], qsum, row_per_byte_out)]
           /\ dw_acc' = Append(dw_acc, sum)
    /\ dw_thrIdx' = Append(dw_thrIdx, ThrIdxU2(ch_out_id))
    /\ dw_wrOut' = dw_wrOut \cup {dw_pOut}
    /\ dw_pOut' = IF row_per_byte_out = 1 THEN dw_pOut + 1 ELSE dw_pOut
    /\ row_per_byte_out' = IF row_per_byte_out = 1 THEN row_per_byte_out - 4
                           ELSE row_per_byte_out - 1
    /\ dw_pBias' = dw_pBias + 1
    /\ ch_out_id' = ch_out_id + 1
    /\ row_shift' = row_shift + 1
    /\ rowCnt' = rowCnt - 1
    /\ UNCHANGED <<family, dw_pc, dw_arg, colBuffer, pBuffer, i_out_y, i_out_x,
                   dw_wrBuf, dw_status>>
    /\ UNCHANGED <<rqVars, mmVars, cvVars>>

\* "clear counter and pointers", the loop increments and the final return
DW_NextPos ==
    /\ dw_pc = "ch1"
    /\ rowCnt = 0
    /\ pBuffer' = 0
    /\ LET lastX == i_out_x + 1 >= dw_arg.dim_im_out
           lastY == i_out_y + 1 >= dw_arg.dim_im_out
       IN  /\ i_out_x' = IF lastX THEN 0 ELSE i_out_x + 1
           /\ i_out_y' = IF lastX THEN i_out_y + 1 ELSE i_out_y
           /\ dw_pc' = IF lastX /\ lastY THEN "done" ELSE "im2col"
           /\ dw_status' = IF lastX /\ lastY THEN "ARM_MATH_SUCCESS"
                           ELSE dw_status
    /\ UNCHANGED <<family, dw_arg, colBuffer, Im_out, dw_pOut, rowCnt,
                   row_shift, dw_pBias, ch_out_id, row_per_byte_out, dw_acc,
                   dw_thrIdx, dw_wrOut, dw_wrBuf>>
    /\ UNCHANGED <<rqVars, mmVars, cvVars>>

DwNext == DW_Check \/ DW_Im2col \/ DW_Ch4 \/ DW_Ch4Done \/ DW_Ch1 \/ DW_NextPos

-----------------------------------------------------------------------------
(* The requantization and packing expressions applied to two accumulators   *)
(* a <= b of one channel.                                                   *)

MaxShift == 2      \* n_zero in -MaxShift..MaxShift, and the extremes below
RqMaxCh  == 2      \* threshold tables of RqMaxCh channels

AccPal == {INT32_MIN, -1073741825, -70000, -32769, -32768, -200, -1, 0, 1, 9,
           150, 32767, 32768, 70000, 1073741824, INT32_MAX}

MZeroPal == {INT32_MIN, -1, 0, 1073741824, 1518500250, INT32_MAX}

\* shift amounts stay below the register width
NZeroPal == (-MaxShift..MaxShift) \cup {-31, -8, 8, 31}

ZOutPal == {0, 3, 255}

RqArgs ==
    { [kind |-> "affine", a |-> a, b |-> b, m_zero |-> m, n_zero |-> n,
       z_out |-> z] :
      a \in AccPal, b \in AccPal, m \in MZeroPal, n \in NZeroPal, z \in ZOutPal }
    \cup
    { [kind |-> "thr", a |-> a, b |-> b, ch |-> c,
       thresholds |-> [i \in 0..(16 * RqMaxCh - 1) |-> PatThr(sd, i)]] :
      a \in AccPal, b \in AccPal, c \in 0..(RqMaxCh - 1), sd \in 0..NumSeeds }

\* every value of the int8_t parameter n_zero
RqSplitArgs == { [kind |-> "split", n_zero |-> n] : n \in -128..127 }

RqIdle == rq_pc = "off" /\ rq_in = <<>> /\ rq_out = <<>>

RqInit ==
    /\ rq_pc = "start"
    /\ rq_in \in {r \in RqArgs : r.a <= r.b} \cup RqSplitArgs
    /\ rq_out = <<>>

\* PACT+FW (u4 output) and "Store Outputs (u4 output)"
RQ_AffineU4 ==
    /\ rq_pc = "start"
    /\ rq_in.kind = "affine"
    /\ LET sum  == AffineRequant(rq_in.a, rq_in.m_zero, rq_in.n_zero, rq_in.z_out)
           sum3 == AffineRequant(rq_in.b, rq_in.m_zero, rq_in.n_zero, rq_in.z_out)
       IN  rq_out' = [fn |-> "affine_u4", bits |-> 4, va |-> sum, vb |-> sum3,
                      old |-> 0, byte |-> PackU4(sum, sum3)]
    /\ rq_pc' = "done"
    /\ UNCHANGED <<family, rq_in, dwVars, mmVars, cvVars>>

\* PACT+FW (u2 output) and "Store Outputs (u2 output)": an even row pair
\* (a, b) starts the byte, the odd row pair (b, a) is or-ed into it
RQ_AffineU2 ==
    /\ rq_pc = "start"
    /\ rq_in.kind = "affine"
    /\ LET sum  == AffineRequant(rq_in.a, rq_in.m_zero, rq_in.n_zero, rq_in.z_out)
           sum3 == AffineRequant(rq_in.b, rq_in.m_zero, rq_in.n_zero, rq_in.z_out)
           lo   == PackU2Lo(sum, sum3)
       IN  rq_out' = [fn |-> "affine_u2", bits |-> 2, va |-> sum, vb |-> sum3,
                      old |-> lo, byte |-> PackU2Hi(sum3, sum, lo)]
    /\ rq_pc' = "done"
    /\ UNCHANGED <<family, rq_in, dwVars, mmVars, cvVars>>

\* "Thresholds (u2 output)" of the depthwise kernel
RQ_ThrU2 ==
    /\ rq_pc = "start"
    /\ rq_in.kind = "thr"
    /\ LET qa == QuantU2(rq_in.a, rq_in.thresholds, rq_in.ch)
           qb == QuantU2(rq_in.b, rq_in.thresholds, rq_in.ch)
       IN  rq_out' = [fn |-> "thr_u2", bits |-> 2, qa |-> qa, qb |-> qb,
                      idx |-> ThrIdxU2(rq_in.ch),
                      byte |-> PackThrU2(qa, qb, qb, qa)]
    /\ rq_pc' = "done"
    /\ UNCHANGED <<family, rq_in, dwVars, mmVars, cvVars>>

\* "Thresholds (u4 output)" of the u4_thr matrix-multiply kernel
RQ_ThrU4 ==
    /\ rq_pc = "start"
    /\ rq_in.kind = "thr"
    /\ LET qa == QuantU4(rq_in.a, rq_in.thresholds, rq_in.ch)
           qb == QuantU4(rq_in.b, rq_in.thresholds, rq_in.ch)
       IN  rq_out' = [fn |-> "thr_u4", bits |-> 4, qa |-> qa, qb |-> qb,
                      idx |-> ThrIdxU4(rq_in.ch),
                      byte |-> PackThrU4(qa, qb)]
    /\ rq_pc' = "done"
    /\ UNCHANGED <<family, rq_in, dwVars, mmVars, cvVars>>

\* "negative n_zero handling": the two int8_t shift amounts
RQ_NZeroSplit ==
    /\ rq_pc = "start"
    /\ rq_in.kind = "split"
    /\ rq_out' = [fn |-> "split", n_zero1 |-> NZero1(rq_in.n_zero),
                  n_zero2 |-> NZero2(rq_in.n_zero)]
    /\ rq_pc' = "done"
    /\ UNCHANGED <<family, rq_in, dwVars, mmVars, cvVars>>

RqNext ==
    RQ_AffineU4 \/ RQ_AffineU2 \/ RQ_ThrU2 \/ RQ_ThrU4 \/ RQ_NZeroSplit

-----------------------------------------------------------------------------
(* arm_nn_mat_mult_kernel_reordered_u8_int16_u4, ..._u8_int16_u4_thr and    *)
(* ..._u4_int16_u2                                                          *)

MaxChPairs == 4    \* ch_im_out = 2 * (1..MaxChPairs)
MaxColA    == 9    \* numCol_A in 1..MaxColA

\* int16 activations
BPal == <<-32768, -255, -1, 0, 1, 3, 100, 32767>>

\* (m_zero, n_zero, z_out) of the affine kernels
QPal == <<<<16777216, 0, 1>>, <<1073741824, 3, 0>>, <<INT32_MAX, -1, 8>>>>

MmKernels == {"u8_u4", "u8_u4_thr", "u4_u2"}

\* bytes of one row of A as the kernel steps over it
MmRowBytes(kernel, numCol_A) ==
    IF kernel = "u4_u2" THEN numCol_A \div 2 ELSE numCol_A

\* bytes of the output: two streams of packed codes
MmOutLen(kernel, ch_im_out) ==
    IF kernel = "u4_u2" THEN 2 * ((ch_im_out + 3) \div 4) ELSE ch_im_out

MmArgs ==
    { [kernel |-> kn, ch_im_out |-> 2 * cp, numCol_A |-> n, z_a |-> z,
       z_out |-> QPal[(sd % Len(QPal)) + 1][3],
       m_zero |-> QPal[(sd % Len(QPal)) + 1][1],
       n_zero |-> QPal[(sd % Len(QPal)) + 1][2],
       pA |-> [i \in 0..(2 * cp * ((n + 1) \div 2) * (IF kn = "u4_u2" THEN 1 ELSE 2) - 1)
                  |-> PatU8(sd, 5, i)],
       pInBuffer |-> [i \in 0..(2 * n - 1) |->
                         BPal[((sd * 3 + i * (sd + 2)) % Len(BPal)) + 1]],
       past |-> [i \in 0..1 |-> ps * (7 - 12 * i)],
       bias |-> [c \in 0..(2 * cp - 1) |-> BiasPal[((sd + c) % Len(BiasPal)) + 1]],
       thresholds |-> IF kn = "u8_u4_thr"
                      THEN [i \in 0..(32 * cp - 1) |-> PatThr(sd, i)]
                      ELSE <<>>,
       junk |-> 85 * (sd % 4)] :
      kn \in MmKernels, cp \in 1..MaxChPairs, n \in 1..MaxColA,
      z \in {0, 3, 255}, sd \in 1..NumSeeds, ps \in 0..1 }

\* the int16 at pInBuffer[i]; what lies past the two vectors is whatever
\* the memory there holds
MmB(arg, i) == IF i < 2 * arg.numCol_A THEN arg.pInBuffer[i]
               ELSE arg.past[i - 2 * arg.numCol_A]

\* *__SIMD32(pB): two adjacent int16 as a lane pair
MmB2(arg, i) == <<MmB(arg, i), MmB(arg, i + 1)>>

\* "Pre-compute z_a offset over the inputs" for the vector starting at pB:
\* the loop over i += 2 and the leftover
MmZaOffset(arg, pB) ==
    LET n   == arg.numCol_A
        cnt == (n + 1) \div 2
    IN  SumTo([t \in 0..(cnt - 1) |->
                  SMLAD(<<arg.z_a, arg.z_a>>, MmB2(arg, pB + 2 * t), 0)], cnt)
        + (IF n % 2 = 1 THEN MmB(arg, pB + 2 * cnt) * arg.z_a ELSE 0)

\* read_and_pad_reordered_u8: four bytes into two lane pairs
read_and_pad_reordered_u8(mem, p) ==
    LET inA == SIMD32(mem, p)
    IN  <<UXTB16(inA), UXTB16(ROR8(inA))>>

\* read_and_pad_reordered_u4: four bytes, eight u4 codes, into four lane pairs
read_and_pad_reordered_u4(mem, p) ==
    LET inA == SIMD32(mem, p)
    IN  << <<inA[1] % 16, inA[3] % 16>>, <<inA[1] \div 16, inA[3] \div 16>>,
           <<inA[2] % 16, inA[4] % 16>>, <<inA[2] \div 16, inA[4] \div 16>> >>

\* the products one pass of the column loop adds to sum, sum2, sum3, sum4
MmColTerms(arg, pA, pA2, t) ==
    LET n  == arg.numCol_A
        w  == IF arg.kernel = "u4_u2" THEN 4 ELSE 2
        a1 == IF arg.kernel = "u4_u2"
              THEN read_and_pad_reordered_u4(arg.pA, pA + 4 * t)
              ELSE read_and_pad_reordered_u8(arg.pA, pA + 4 * t)
        a2 == IF arg.kernel = "u4_u2"
              THEN read_and_pad_reordered_u4(arg.pA, pA2 + 4 * t)
              ELSE read_and_pad_reordered_u8(arg.pA, pA2 + 4 * t)
        b1 == [k \in 1..w |-> MmB2(arg, 2 * w * t + 2 * (k - 1))]
        b2 == [k \in 1..w |-> MmB2(arg, n + 2 * w * t + 2 * (k - 1))]
    IN  << SumTo([k \in 0..(w - 1) |-> SMLAD(a1[k + 1], b1[k + 1], 0)], w),
           SumTo([k \in 0..(w - 1) |-> SMLAD(a1[k + 1], b2[k + 1], 0)], w),
           SumTo([k \in 0..(w - 1) |-> SMLAD(a2[k + 1], b1[k + 1], 0)], w),
           SumTo([k \in 0..(w - 1) |-> SMLAD(a2[k + 1], b2[k + 1], 0)], w) >>

\* passes of the column loop: numCol_A >> 2, or numCol_A >> 3 for u4 weights
MmColCnt(arg) ==
    IF arg.kernel = "u4_u2" THEN arg.numCol_A \div 8 ELSE arg.numCol_A \div 4

MmRowSums_nooffset(arg, pA, i, zoff, zoff2) ==
    LET colCnt == MmColCnt(arg)
        pA2    == pA + MmRowBytes(arg.kernel, arg.numCol_A)
        terms  == [t \in 0..(colCnt - 1) |-> MmColTerms(arg, pA, pA2, t)]
        acc(n) == SumTo([t \in 0..(colCnt - 1) |-> terms[t][n]], colCnt)
    IN  << arg.bias[i] + acc(1), arg.bias[i] + acc(2),
           arg.bias[i + 1] + acc(3), arg.bias[i + 1] + acc(4) >>

\* sum, sum2, sum3, sum4 of the row pair (i, i+1) whose first row starts
\* at pA, as handed to requantization
MmRowSums(arg, pA, i, zoff, zoff2) ==
    LET colCnt == MmColCnt(arg)
        pA2    == pA + MmRowBytes(arg.kernel, arg.numCol_A)
        terms  == [t \in 0..(colCnt - 1) |-> MmColTerms(arg, pA, pA2, t)]
        acc(n) == SumTo([t \in 0..(colCnt - 1) |-> terms[t][n]], colCnt)
    IN  << arg.bias[i] - zoff + acc(1), arg.bias[i] - zoff2 + acc(2),
           arg.bias[i + 1] - zoff + acc(3), arg.bias[i + 1] - zoff2 + acc(4) >>

\* pA after the row pair: moved by the column loop, then "skip the row
\* computed with A2"
MmNextRow(arg, pA) ==
    pA + 4 * MmColCnt(arg) + MmRowBytes(arg.kernel, arg.numCol_A)

\* the second output pointer set a quarter of the channels ahead in every
\* kernel
MmOut2_quarter(arg, pOut) == pOut + (arg.ch_im_out \div 4)

\* second output pointer: pOut + (ch_im_out >> 1), or >> 2 for u2 output
MmOut2(arg, pOut) ==
    IF arg.kernel = "u4_u2" THEN pOut + (arg.ch_im_out \div 4)
    ELSE pOut + (arg.ch_im_out \div 2)

\* what the row pair hands to packing: the requantized sums of the affine
\* kernels (saturated while packing), the 4-bit codes of the threshold kernel
MmCodes(arg, i, s) ==
    IF arg.kernel = "u8_u4_thr"
    THEN << QuantU4(s[1], arg.thresholds, i), QuantU4(s[2], arg.thresholds, i),
            QuantU4(s[3], arg.thresholds, i + 1),
            QuantU4(s[4], arg.thresholds, i + 1) >>
    ELSE [n \in 1..4 |-> AffineRequant(s[n], arg.m_zero, arg.n_zero, arg.z_out)]

\* the byte stored through an output pointer for the two rows' codes qlo
\* and qhi, `old' being the byte there before the store
MmByte(arg, i, qlo, qhi, old) ==
    CASE arg.kernel = "u8_u4"     -> PackU4(qlo, qhi)
      [] arg.kernel = "u8_u4_thr" -> PackThrU4(qlo, qhi)
      [] arg.kernel = "u4_u2"     -> IF (i \div 2) % 2 = 1
                                     THEN PackU2Hi(qlo, qhi, old)
                                     ELSE PackU2Lo(qlo, qhi)

\* whether the row pair moves the output pointers after storing
MmAdvance(arg, i) == arg.kernel # "u4_u2" \/ (i \div 2) % 2 = 1

\* the pointer moves of the epilogue: pOut += ch_im_out >> 1 (>> 2 for u2)
MmRetAdvance(arg) ==
    IF arg.kernel = "u4_u2" THEN arg.ch_im_out \div 4 ELSE arg.ch_im_out \div 2

MmIdle ==
    /\ mm_pc = "off" /\ mm_arg = <<>> /\ mm_out = <<>> /\ mm_pOut = 0
    /\ mm_pOut2 = 0 /\ mm_pA = 0 /\ mm_i = 0 /\ z_a_offset = 0
    /\ z_a_offset2 = 0 /\ mm_acc = <<>> /\ mm_thrIdx = <<>> /\ mm_wr = <<>>
    /\ mm_rowStart = <<>> /\ mm_ret = -1

\* the state at entry; pointers are offsets from the caller's pA and pOut
MmInit ==
    /\ mm_pc = "entry"
    /\ mm_arg \in MmArgs
    /\ mm_out = [i \in 0..(MmOutLen(mm_arg.kernel, mm_arg.ch_im_out) - 1)
                    |-> mm_arg.junk]
    /\ mm_pOut = 0 /\ mm_pOut2 = 0 /\ mm_pA = 0 /\ mm_i = 0
    /\ z_a_offset = 0 /\ z_a_offset2 = 0
    /\ mm_acc = <<>> /\ mm_thrIdx = <<>> /\ mm_wr = <<>> /\ mm_rowStart = <<>>
    /\ mm_ret = -1

\* set-up of the second output pointer and the zero-point correction
MM_Entry ==
    /\ mm_pc = "entry"
    /\ mm_pOut2' = MmOut2(mm_arg, mm_pOut)
    /\ z_a_offset' = MmZaOffset(mm_arg, 0)
    /\ z_a_offset2' = MmZaOffset(mm_arg, mm_arg.numCol_A)
    /\ mm_i' = 0
    /\ mm_pc' = "rows"
    /\ UNCHANGED <<family, mm_arg, mm_out, mm_pOut, mm_pA, mm_acc, mm_thrIdx,
                   mm_wr, mm_rowStart, mm_ret>>
    /\ UNCHANGED <<rqVars, dwVars, cvVars>>

\* one pass of "this loop over rows in A"
MM_RowPair ==
    /\ mm_pc = "rows"
    /\ mm_i < mm_arg.ch_im_out
    /\ LET s    == MmRowSums(mm_arg, mm_pA, mm_i, z_a_offset, z_a_offset2)
           q    == MmCodes(mm_arg, mm_i, s)
           out1 == [mm_out EXCEPT ![mm_pOut] =
                       MmByte(mm_arg, mm_i, q[1], q[3], mm_out[mm_pOut])]
           out2 == [out1 EXCEPT ![mm_pOut2] =
                       MmByte(mm_arg, mm_i, q[2], q[4], out1[mm_pOut2])]
       IN  /\ mm_out' = out2
           /\ mm_acc' = Append(mm_acc, <<s[1], s[2], s[3], s[4]>>)
    /\ mm_thrIdx' = IF mm_arg.kernel = "u8_u4_thr"
                    THEN mm_thrIdx \o <<ThrIdxU4(mm_i), ThrIdxU4(mm_i + 1)>>
                    ELSE mm_thrIdx
    /\ mm_wr' = mm_wr \o << <<"pOut", mm_pOut>>, <<"pOut2", mm_pOut2>> >>
    /\ mm_rowStart' = Append(mm_rowStart, mm_pA)
    /\ mm_pOut' = IF MmAdvance(mm_arg, mm_i) THEN mm_pOut + 1 ELSE mm_pOut
    /\ mm_pOut2' = IF MmAdvance(mm_arg, mm_i) THEN mm_pOut2 + 1 ELSE mm_pOut2
    /\ mm_pA' = MmNextRow(mm_arg, mm_pA)
    /\ mm_i' = mm_i + 2
    /\ UNCHANGED <<family, mm_pc, mm_arg, z_a_offset, z_a_offset2, mm_ret>>
    /\ UNCHANGED <<rqVars, dwVars, cvVars>>

\* "return the new output pointer with offset"
MM_Return ==
    /\ mm_pc = "rows"
    /\ mm_i >= mm_arg.ch_im_out
    /\ mm_pOut' = mm_pOut + MmRetAdvance(mm_arg)
    /\ mm_ret' = mm_pOut + MmRetAdvance(mm_arg)
    /\ mm_pc' = "done"
    /\ UNCHANGED <<family, mm_arg, mm_out, mm_pOut2, mm_pA, mm_i, z_a_offset,
                   z_a_offset2, mm_acc, mm_thrIdx, mm_wr, mm_rowStart>>
    /\ UNCHANGED <<rqVars, dwVars, cvVars>>

MmNext == MM_Entry \/ MM_RowPair \/ MM_Return

-----------------------------------------------------------------------------
(* arm_u2_to_int16_reordered                                                *)

MaxBlockSize == 38    \* blockSize in 0..MaxBlockSize

\* the uint8_t offset
OffsetPal == {0, 1, 3, 255}

\* bytes the function reads: a word per 16-element block and the word at
\* pIn that the leftover part loads
CvSrcLen(blockSize) == 4 * (blockSize \div 16) + 4

CvArgs ==
    { [pSrc |-> [i \in 0..(CvSrcLen(bs) - 1) |-> PatU8(sd, 7, i)],
       blockSize |-> bs, offset |-> o] :
      bs \in 0..MaxBlockSize, o \in OffsetPal, sd \in 1..NumSeeds }

\* __UXTB16(in << n) for the word of bytes w, n in 0..6: bytes 0 and 2 of
\* the shifted word
UXTB16_shl(w, n) ==
    << (w[1] * Pow2(n)) % 256,
       ((w[3] * Pow2(n)) % 256) + (w[2] \div Pow2(8 - n)) >>

\* __UXTB16(in >> n) for the word of bytes w, n in 2..8
UXTB16_shr(w, n) ==
    << (w[1] \div Pow2(n)) + ((w[2] * Pow2(8 - n)) % 256),
       (w[3] \div Pow2(n)) + ((w[4] * Pow2(8 - n)) % 256) >>

\* __UXTB16(__ROR(x, 6)) for x of halfword lanes h, each below 256: bytes 0
\* and 2 of the rotated word; the six bits rotated to the top land in bits
\* 26..31 and reach neither byte
UXTB16_ROR6(h) ==
    LET r == (h[1] + 65536 * h[2]) \div 64
    IN  << r % 256, (r \div 65536) % 256 >>

\* in1 .. in8, the order in which the big-endian path stores them
CvLanes_be(w) ==
    << UXTB16_ROR6(UXTB16_shr(w, 8)), UXTB16_ROR6(UXTB16_shr(w, 6)),
       UXTB16_ROR6(UXTB16_shr(w, 4)), UXTB16_ROR6(UXTB16_shr(w, 2)),
       UXTB16_ROR6(UXTB16_shl(w, 0)), UXTB16_ROR6(UXTB16_shl(w, 2)),
       UXTB16_ROR6(UXTB16_shl(w, 4)), UXTB16_ROR6(UXTB16_shl(w, 6)) >>

\* in8, in7, in6, in5, in4, in3, in2, in1 of one unrolled pass, in the order
\* the little-endian path stores them
CvLanes(w) ==
    << UXTB16_ROR6(UXTB16_shl(w, 6)), UXTB16_ROR6(UXTB16_shl(w, 4)),
       UXTB16_ROR6(UXTB16_shl(w, 2)), UXTB16_ROR6(UXTB16_shl(w, 0)),
       UXTB16_ROR6(UXTB16_shr(w, 2)), UXTB16_ROR6(UXTB16_shr(w, 4)),
       UXTB16_ROR6(UXTB16_shr(w, 6)), UXTB16_ROR6(UXTB16_shr(w, 8)) >>

\* the sixteen int16 one pass of the loop under if(offset) stores: every
\* word through __SSUB16 with offset_vect, then eight word stores
CvBlockSub(w, offset) ==
    [n \in 1..16 |->
        SSUB16(CvLanes(w)[(n + 1) \div 2], <<offset, offset>>)[2 - (n % 2)]]

\* the sixteen int16 one pass of the loop under else stores
CvBlockPlain(w) ==
    [n \in 1..16 |-> CvLanes(w)[(n + 1) \div 2][2 - (n % 2)]]

\* if(offset) ... else ...
CvBlock(w, offset) ==
    IF offset # 0 THEN CvBlockSub(w, offset) ELSE CvBlockPlain(w)

\* (int16_t) __UXTB16(__ROR(__UXTB16(in_32 << 6), 6)): the low halfword
CvRemValue(w) == UXTB16_ROR6(UXTB16_shl(w, 6))[1]

\* __ROR(in_32, 2)
ROR2(w) == [i \in 1..4 |-> (w[i] \div 4) + (w[(i % 4) + 1] % 4) * 64]

CvIdle ==
    /\ cv_pc = "off" /\ cv_arg = <<>> /\ pDst = <<>> /\ pIn = 0
    /\ blkCnt = 0 /\ in_32 = <<0, 0, 0, 0>> /\ cv_unrolled = 0

\* the state at entry; in_32 is not yet loaded
CvInit ==
    /\ cv_pc = "entry" /\ cv_arg \in CvArgs /\ pDst = <<>> /\ pIn = 0
    /\ blkCnt = 0 /\ in_32 = <<0, 0, 0, 0>> /\ cv_unrolled = 0

\* blkCnt = blockSize >> 4u
CV_Entry ==
    /\ cv_pc = "entry"
    /\ blkCnt' = cv_arg.blockSize \div 16
    /\ cv_pc' = "unrolled"
    /\ UNCHANGED <<family, cv_arg, pDst, pIn, in_32, cv_unrolled>>
    /\ UNCHANGED <<rqVars, dwVars, mmVars>>

\* one pass of the unrolled loop, in either branch
CV_Unrolled ==
    /\ cv_pc = "unrolled"
    /\ blkCnt > 0
    /\ pDst' = pDst \o CvBlock(SIMD32(cv_arg.pSrc, pIn), cv_arg.offset)
    /\ pIn' = pIn + 4
    /\ cv_unrolled' = cv_unrolled + 16
    /\ blkCnt' = blkCnt - 1
    /\ UNCHANGED <<family, cv_pc, cv_arg, in_32>>
    /\ UNCHANGED <<rqVars, dwVars, mmVars>>

\* blkCnt = blockSize % 0x16u and the load of in_32
CV_Leftover ==
    /\ cv_pc = "unrolled"
    /\ blkCnt = 0
    /\ blkCnt' = cv_arg.blockSize % 22
    /\ in_32' = SIMD32(cv_arg.pSrc, pIn)
    /\ cv_pc' = "remainder"
    /\ UNCHANGED <<family, cv_arg, pDst, pIn, cv_unrolled>>
    /\ UNCHANGED <<rqVars, dwVars, mmVars>>

\* one pass of the remainder loop
CV_Remainder ==
    /\ cv_pc = "remainder"
    /\ blkCnt > 0
    /\ pDst' = Append(pDst, CvRemValue(in_32))
    /\ in_32' = ROR2(in_32)
    /\ blkCnt' = blkCnt - 1
    /\ UNCHANGED <<family, cv_pc, cv_arg, pIn, cv_unrolled>>
    /\ UNCHANGED <<rqVars, dwVars, mmVars>>

CV_Return ==
    /\ cv_pc = "remainder"
    /\ blkCnt = 0
    /\ cv_pc' = "done"
    /\ UNCHANGED <<family, cv_arg, pDst, pIn, blkCnt, in_32, cv_unrolled>>
    /\ UNCHANGED <<rqVars, dwVars, mmVars>>

CvNext == CV_Entry \/ CV_Unrolled \/ CV_Leftover \/ CV_Remainder \/ CV_Return

-----------------------------------------------------------------------------
(* Specifications: one per function family, and all of them together.       *)

InitDW == family = "dw" /\ DwInit /\ RqIdle /\ MmIdle /\ CvIdle

SpecDW == InitDW /\ [][DwNext]_vars

InitRQ == family = "rq" /\ RqInit /\ DwIdle /\ MmIdle /\ CvIdle

SpecRQ == InitRQ /\ [][RqNext]_vars

InitMM == family = "mm" /\ MmInit /\ DwIdle /\ RqIdle /\ CvIdle

SpecMM == InitMM /\ [][MmNext]_vars

InitCV == family = "cv" /\ CvInit /\ DwIdle /\ RqIdle /\ MmIdle

SpecCV == InitCV /\ [][CvNext]_vars

Init == InitDW \/ InitRQ \/ InitMM \/ InitCV

Next == DwNext \/ RqNext \/ MmNext \/ CvNext

Spec == Init /\ [][Next]_vars

-----------------------------------------------------------------------------
(* Properties of the depthwise kernel.                                      *)

\* the scalar reference: bias[c] + sum over kernel positions p of
\* (wt[p*ch + c] - z_wt) * (staged[p*ch + c] - z_in), as signed integers
DwRefAcc(arg, staged, c) ==
    LET ch == arg.ch_im_in
        kk == arg.dim_kernel * arg.dim_kernel
    IN  arg.bias[c]
        + SumTo([p \in 0..(kk - 1) |->
                    (arg.wt[p * ch + c] - arg.z_wt)
                    * (staged[p * ch + c] - arg.z_in)], kk)

\* channels of full groups of four
DwFullCh(arg) == 4 * (arg.ch_im_out \div 4)

\* C1: the kernel returns ARM_MATH_SIZE_MISMATCH whenever ch_im_in #
\* ch_im_out, and then no byte of Im_out or of the staging buffer has been
\* written; whenever ch_im_in = ch_im_out it returns ARM_MATH_SUCCESS.
Thm_C1 ==
    family = "dw" =>
      /\ dw_arg.ch_im_in # dw_arg.ch_im_out =>
           /\ dw_wrOut = {} /\ dw_wrBuf = {}
           /\ \A i \in DOMAIN Im_out : Im_out[i] = dw_arg.junk
           /\ \A i \in DOMAIN colBuffer : colBuffer[i] = dw_arg.junk
           /\ dw_status \in {"none", "ARM_MATH_SIZE_MISMATCH"}
      /\ dw_arg.ch_im_in = dw_arg.ch_im_out =>
           dw_status \in {"none", "ARM_MATH_SUCCESS"}
      /\ dw_pc = "done" => dw_status # "none"
      /\ dw_status # "none" => dw_pc = "done"

\* the call has returned the size mismatch
Wit_C1 ==
    /\ family = "dw" /\ dw_pc = "done"
    /\ dw_arg.ch_im_in > dw_arg.ch_im_out
    /\ dw_status = "ARM_MATH_SIZE_MISMATCH"

\* C2: in the 4-channel unrolled pass, for every output position and every
\* channel c of a full group of four, the accumulator handed to
\* requantization equals the scalar reference, for even and for odd
\* dim_kernel * dim_kernel.
Thm_C2 ==
    family = "dw" =>
      \A c \in 0..(Len(dw_acc) - 1) :
         c < DwFullCh(dw_arg) => dw_acc[c + 1] = DwRefAcc(dw_arg, colBuffer, c)

\* a full group has been accumulated over 9 kernel positions (four pairs and
\* the tail), with staged codes below the input zero point
Wit_C2 ==
    /\ family = "dw" /\ dw_pc = "ch4" /\ Len(dw_acc) >= 4
    /\ dw_arg.dim_kernel = 3
    /\ dw_arg.z_in > 0 /\ dw_arg.z_wt > 0
    /\ \E s \in DOMAIN colBuffer : colBuffer[s] < dw_arg.z_in
    /\ \E s \in DOMAIN colBuffer : colBuffer[s] > dw_arg.z_in
    /\ i_out_x > 0

\* C3: the 1-channel remainder loop uses the same offset-subtract-then-
\* multiply arithmetic as the 4-channel pass: the accumulator of every
\* remainder channel equals the scalar reference computed on signed integers.
CE_C3 ==
    family = "dw" =>
      \A c \in 0..(Len(dw_acc) - 1) :
         c >= DwFullCh(dw_arg) => dw_acc[c + 1] = DwRefAcc(dw_arg, colBuffer, c)

-----------------------------------------------------------------------------
(* Properties of the matrix-multiply kernels.                               *)

\* the raw weight code of row r that the reordered read pairs with B_v[j];
\* columns past the unrolled width are taken in storage order
MmPairedA(arg, r, j) ==
    LET n == arg.numCol_A
    IN  IF arg.kernel = "u4_u2"
        THEN LET row  == r * (n \div 2)
                 blk  == j \div 8
                 k    == j % 8
                 byte == IF j < 8 * (n \div 8)
                         THEN row + 4 * blk + <<0, 2, 0, 2, 1, 3, 1, 3>>[k + 1]
                         ELSE row + (j \div 2)
                 high == IF j < 8 * (n \div 8)
                         THEN k \in {2, 3, 6, 7}
                         ELSE j % 2 = 1
             IN  IF high THEN arg.pA[byte] \div 16 ELSE arg.pA[byte] % 16
        ELSE IF j < 4 * (n \div 4)
             THEN arg.pA[r * n + 4 * (j \div 4) + <<0, 2, 1, 3>>[(j % 4) + 1]]
             ELSE arg.pA[r * n + j]

\* the scalar reference of row r against activation vector v (1 or 2):
\* bias[r] + sum over all j < numCol_A of (A[r][j] - z_a) * B_v[j]
MmRefAcc(arg, r, v) ==
    LET n == arg.numCol_A
    IN  arg.bias[r]
        + SumTo([j \in 0..(n - 1) |->
                    (MmPairedA(arg, r, j) - arg.z_a)
                    * arg.pInBuffer[(v - 1) * n + j]], n)

\* the four accumulators of every row pair done so far equal the reference
MmAccExact ==
    \A p \in 1..Len(mm_acc) :
       /\ mm_acc[p][1] = MmRefAcc(mm_arg, 2 * (p - 1), 1)
       /\ mm_acc[p][2] = MmRefAcc(mm_arg, 2 * (p - 1), 2)
       /\ mm_acc[p][3] = MmRefAcc(mm_arg, 2 * (p - 1) + 1, 1)
       /\ mm_acc[p][4] = MmRefAcc(mm_arg, 2 * (p - 1) + 1, 2)

\* C4: in the u8-weight kernels, when numCol_A is a multiple of 4, for
\* every row pair and both activation vectors the four accumulators handed
\* to requantization equal bias[r] + sum over j of (A[r][j] - z_a) * B_v[j].
Thm_C4 ==
    (family = "mm" /\ mm_arg.kernel \in {"u8_u4", "u8_u4_thr"}
       /\ mm_arg.numCol_A % 4 = 0) => MmAccExact

\* the second row pair of a u8 kernel has been accumulated over two passes
\* of the column loop with a non-zero weight zero point
Wit_C4 ==
    /\ family = "mm" /\ mm_arg.kernel = "u8_u4_thr" /\ mm_arg.numCol_A = 8
    /\ mm_arg.z_a = 3 /\ Len(mm_acc) = 2
    /\ mm_acc[2][1] # mm_arg.bias[2]

\* C5: when numCol_A is not a multiple of the unrolled width (4 columns for
\* the u8-weight kernels, 8 for the u4-weight kernel) every accumulator
\* still includes the terms of all numCol_A columns, and the weight pointer
\* starts each row pair at that row's first column.
CE_C5 ==
    (family = "mm"
       /\ mm_arg.numCol_A % (IF mm_arg.kernel = "u4_u2" THEN 8 ELSE 4) # 0) =>
      /\ MmAccExact
      /\ \A p \in 1..Len(mm_rowStart) :
            mm_rowStart[p]
              = 2 * (p - 1) * MmRowBytes(mm_arg.kernel, mm_arg.numCol_A)

\* C6: for every numCol_A >= 1, even or odd, z_a_offset = z_a * sum of
\* B_1 and z_a_offset2 = z_a * sum of B_2, with B_1 = pInBuffer[0..numCol_A)
\* and B_2 = pInBuffer[numCol_A..2*numCol_A).
CE_C6 ==
    (family = "mm" /\ mm_pc # "entry") =>
      LET n == mm_arg.numCol_A
      IN  /\ z_a_offset = mm_arg.z_a
                * SumTo([j \in 0..(n - 1) |-> mm_arg.pInBuffer[j]], n)
          /\ z_a_offset2 = mm_arg.z_a
                * SumTo([j \in 0..(n - 1) |-> mm_arg.pInBuffer[n + j]], n)

-----------------------------------------------------------------------------
(* Properties of requantization and packing.                                *)

RqDone(fns) == family = "rq" /\ rq_pc = "done" /\ rq_out.fn \in fns

\* the code lanes of the two accumulators a <= b in the packed byte
RqCodeA == Lane(rq_out.byte, 0, rq_out.bits)
RqCodeB == Lane(rq_out.byte, 1, rq_out.bits)

\* C7: threshold requantization as applied by the kernels is non-decreasing
\* in the signed 32-bit accumulator, and accumulators below the first or
\* above the last breakpoint of the channel yield 0 and 2^bits - 1.
CE_C7 ==
    RqDone({"thr_u2", "thr_u4"}) =>
      LET nb    == 2^rq_out.bits - 1
          first == rq_in.thresholds[rq_out.idx]
          last  == rq_in.thresholds[rq_out.idx + nb - 1]
      IN  /\ rq_out.qa <= rq_out.qb
          /\ rq_in.a < first => rq_out.qa = 0
          /\ rq_in.b > last => rq_out.qb = nb

\* C8 as stated: the breakpoints of channel c start at flat index
\* c * (2^bits - 1): 3*c in the depthwise kernel, 15*c in the u4_thr kernel.
CE_C8 ==
    /\ family = "dw" => \A c \in 1..Len(dw_thrIdx) : dw_thrIdx[c] = 3 * (c - 1)
    /\ family = "mm" => \A c \in 1..Len(mm_thrIdx) : mm_thrIdx[c] = 15 * (c - 1)

\* C8, amended: the breakpoints of channel c start at flat index c * 2^bits:
\* the depthwise kernel reads channel c's three breakpoints from index 4*c,
\* the u4_thr kernel reads channel c's fifteen from index 16*c, and the
\* stored codes are the counts over exactly those breakpoints.
Thm_C8 ==
    /\ family = "dw" =>
         /\ \A c \in 1..Len(dw_thrIdx) : dw_thrIdx[c] = 4 * (c - 1)
         /\ (dw_pc = "ch4" /\ Len(dw_acc) >= 4) =>
               \A n \in 0..3 :
                  LET c == Len(dw_acc) - 4 + n
                  IN  Lane(Im_out[dw_pOut - 1], n, 2)
                        = int16_to_u2(ToInt16(dw_acc[c + 1]),
                                      dw_arg.thresholds, 4 * c)
    /\ (family = "mm" /\ mm_arg.kernel = "u8_u4_thr") =>
         /\ \A c \in 1..Len(mm_thrIdx) : mm_thrIdx[c] = 16 * (c - 1)
         /\ \A p \in 1..Len(mm_acc) :
               /\ Lane(mm_out[p - 1], 0, 4)
                    = int16_to_u4(ToInt16(mm_acc[p][1]), mm_arg.thresholds,
                                  16 * 2 * (p - 1))
               /\ Lane(mm_out[p - 1], 1, 4)
                    = int16_to_u4(ToInt16(mm_acc[p][3]), mm_arg.thresholds,
                                  16 * (2 * (p - 1) + 1))

\* the depthwise kernel has thresholded a full group and a remainder
\* channel, so channels past channel 0 have read their breakpoints
Wit_C8 ==
    /\ family = "dw" /\ Len(dw_thrIdx) = 5 /\ dw_thrIdx[5] = 16
    /\ dw_arg.thresholds[16] # dw_arg.thresholds[12]

\* the pre-shift sum << n_zero1 keeps the value of sum
RqNoShlOverflow(x, n_zero) ==
    Asr32(Shl32(x, NZero1(n_zero)), NZero1(n_zero)) = x

\* C9 as stated: for fixed (m_zero, n_zero, z_out) and any two signed
\* 32-bit accumulators a <= b the saturated code of a is <= that of b.
CE_C9 == RqDone({"affine_u4", "affine_u2"}) => RqCodeA <= RqCodeB

\* C9, amended: for m_zero >= 0, shift amounts below 32 and accumulators
\* a <= b whose pre-shift acc << n_zero1 does not overflow 32 bits, the
\* saturated code of a is <= that of b.
Thm_C9 ==
    (RqDone({"affine_u4", "affine_u2"}) /\ rq_in.m_zero >= 0
       /\ RqNoShlOverflow(rq_in.a, rq_in.n_zero)
       /\ RqNoShlOverflow(rq_in.b, rq_in.n_zero)) => RqCodeA <= RqCodeB

\* two accumulators, pre-shifted left without overflow, with different
\* codes strictly inside the output range
Wit_C9 ==
    /\ RqDone({"affine_u4"}) /\ rq_in.m_zero > 0 /\ rq_in.n_zero < 0
    /\ RqNoShlOverflow(rq_in.a, rq_in.n_zero)
    /\ RqNoShlOverflow(rq_in.b, rq_in.n_zero)
    /\ 0 < RqCodeA /\ RqCodeA < RqCodeB /\ RqCodeB < 15

Clamp(v, bits) == Max(0, Min(2^bits - 1, v))

\* the clamped code of accumulator n of row pair p of the affine kernels
MmClampCode(p, n, bits) ==
    Clamp(AffineRequant(mm_acc[p][n], mm_arg.m_zero, mm_arg.n_zero,
                        mm_arg.z_out), bits)

\* C10: every code the affine kernels pack is the requantized value clamped
\* to [0, 2^bits - 1], for every accumulator, m_zero, n_zero and z_out, and
\* sits in its own lane: the lanes of the byte read back exactly the
\* codes, and or-ing the odd row pair in leaves the even pair's lanes alone.
\* In a kernel run over whole output bytes every lane of the output holds
\* the clamped code of its own channel and activation vector.
Thm_C10 ==
    /\ RqDone({"affine_u4", "affine_u2"}) =>
         /\ rq_out.byte \in 0..255
         /\ RqCodeA = Clamp(rq_out.va, rq_out.bits)
         /\ RqCodeB = Clamp(rq_out.vb, rq_out.bits)
         /\ rq_out.bits = 2 =>
              /\ Lane(rq_out.byte, 2, 2) = Clamp(rq_out.vb, 2)
              /\ Lane(rq_out.byte, 3, 2) = Clamp(rq_out.va, 2)
              /\ rq_out.old \in 0..15
              /\ Lane(rq_out.old, 0, 2) = RqCodeA
              /\ Lane(rq_out.old, 1, 2) = RqCodeB
    /\ (family = "mm" /\ mm_pc = "done" /\ mm_arg.kernel = "u8_u4") =>
         \A p \in 1..Len(mm_acc) :
            LET b1 == mm_out[p - 1]
                b2 == mm_out[(mm_arg.ch_im_out \div 2) + p - 1]
            IN  /\ Lane(b1, 0, 4) = MmClampCode(p, 1, 4)
                /\ Lane(b1, 1, 4) = MmClampCode(p, 3, 4)
                /\ Lane(b2, 0, 4) = MmClampCode(p, 2, 4)
                /\ Lane(b2, 1, 4) = MmClampCode(p, 4, 4)
    /\ (family = "mm" /\ mm_pc = "done" /\ mm_arg.kernel = "u4_u2"
          /\ mm_arg.ch_im_out % 4 = 0) =>
         \A p \in 1..Len(mm_acc) :
            LET b1 == mm_out[(p - 1) \div 2]
                b2 == mm_out[(mm_arg.ch_im_out \div 4) + ((p - 1) \div 2)]
                l  == 2 * ((p - 1) % 2)
            IN  /\ Lane(b1, l, 2) = MmClampCode(p, 1, 2)
                /\ Lane(b1, l + 1, 2) = MmClampCode(p, 3, 2)
                /\ Lane(b2, l, 2) = MmClampCode(p, 2, 2)
                /\ Lane(b2, l + 1, 2) = MmClampCode(p, 4, 2)

\* a u2 byte holding one value clamped from below and one from above
Wit_C10 ==
    /\ RqDone({"affine_u2"}) /\ rq_out.va < 0 /\ rq_out.vb > 3
    /\ rq_out.byte = 60

\* C11: for every int8 n_zero the split gives n_zero1 = max(0, -n_zero) and
\* n_zero2 = max(0, n_zero): both are non-negative, at most one is non-zero
\* and n_zero2 - n_zero1 = n_zero.
CE_C11 ==
    RqDone({"split"}) =>
      /\ rq_out.n_zero1 = Max(0, -rq_in.n_zero)
      /\ rq_out.n_zero2 = Max(0, rq_in.n_zero)
      /\ rq_out.n_zero1 >= 0 /\ rq_out.n_zero2 >= 0
      /\ rq_out.n_zero1 = 0 \/ rq_out.n_zero2 = 0
      /\ rq_out.n_zero2 - rq_out.n_zero1 = rq_in.n_zero

-----------------------------------------------------------------------------
(* Properties of the output streams of the matrix-multiply kernels.         *)

\* the u2 code of row r for activation vector v (1 or 2) of the u2 kernel
MmCodeU2(r, v) == MmClampCode((r \div 2) + 1, 2 * (r % 2) + v, 2)

\* the four codes of rows 4k..4k+3 of vector v, LSB first
MmQuadU2(k, v) ==
    MmCodeU2(4 * k, v) + 4 * MmCodeU2(4 * k + 1, v)
      + 16 * MmCodeU2(4 * k + 2, v) + 64 * MmCodeU2(4 * k + 3, v)

\* C12: in the u2 kernel with ch_im_out a multiple of 4, an even row pair
\* starts a fresh byte (codes in bits 0-1 and 2-3, bits 4-7 zero) and does
\* not advance the pointers, an odd row pair ors its codes into bits 4-5 and
\* 6-7 of the same byte and advances; after the call byte k of each stream
\* is code(4k) | code(4k+1)<<2 | code(4k+2)<<4 | code(4k+3)<<6 of that
\* stream's vector, whatever the buffer held before.
Thm_C12 ==
    (family = "mm" /\ mm_arg.kernel = "u4_u2" /\ mm_arg.ch_im_out % 4 = 0) =>
      LET q == mm_arg.ch_im_out \div 4
          n == Len(mm_acc)
      IN  /\ \A p \in 1..n :
                /\ mm_wr[2 * p - 1] = <<"pOut", (p - 1) \div 2>>
                /\ mm_wr[2 * p] = <<"pOut2", q + ((p - 1) \div 2)>>
          /\ mm_pc = "rows" =>
                /\ mm_pOut = n \div 2 /\ mm_pOut2 = q + (n \div 2)
                /\ n % 2 = 1 =>
                     /\ mm_out[n \div 2]
                          = MmCodeU2(2 * n - 2, 1) + 4 * MmCodeU2(2 * n - 1, 1)
                     /\ mm_out[q + (n \div 2)]
                          = MmCodeU2(2 * n - 2, 2) + 4 * MmCodeU2(2 * n - 1, 2)
          /\ mm_pc = "done" =>
                \A k \in 0..(q - 1) :
                   /\ mm_out[k] = MmQuadU2(k, 1)
                   /\ mm_out[q + k] = MmQuadU2(k, 2)

\* the u2 kernel has returned after eight rows over a buffer of non-zero
\* junk, and the second byte of the primary stream holds four different
\* lanes' worth of codes
Wit_C12 ==
    /\ family = "mm" /\ mm_arg.kernel = "u4_u2" /\ mm_arg.ch_im_out = 8
    /\ mm_pc = "done" /\ mm_arg.junk # 0
    /\ mm_out[1] = MmQuadU2(1, 1) /\ mm_out[1] >= 16 /\ mm_out[1] % 16 # 0

\* the u4 code of row r for activation vector v (1 or 2) of the u8-weight
\* kernels, from the accumulator the kernel computed
MmCodeU4(r, v) ==
    IF mm_arg.kernel = "u8_u4_thr"
    THEN int16_to_u4(ToInt16(mm_acc[(r \div 2) + 1][2 * (r % 2) + v]),
                     mm_arg.thresholds, 16 * r)
    ELSE MmClampCode((r \div 2) + 1, 2 * (r % 2) + v, 4)

\* the output bytes written so far, with repetitions
MmWrAddrs == [n \in 1..Len(mm_wr) |-> mm_wr[n][2]]

\* C13: for even ch_im_out the u8_u4 and u8_u4_thr kernels return
\* pOut + ch_im_out; vector 1 fills [pOut, pOut + ch_im_out/2), vector 2
\* fills [pOut + ch_im_out/2, pOut + ch_im_out), byte k of a stream holds
\* channel 2k in its low and channel 2k+1 in its high nibble, each of these
\* bytes is written exactly once and no byte outside [pOut, returned
\* pointer) is written.
Thm_C13 ==
    (family = "mm" /\ mm_arg.kernel \in {"u8_u4", "u8_u4_thr"}) =>
      LET h == mm_arg.ch_im_out \div 2
      IN  /\ \A p \in 1..Len(mm_acc) :
                /\ mm_wr[2 * p - 1] = <<"pOut", p - 1>>
                /\ mm_wr[2 * p] = <<"pOut2", h + p - 1>>
          /\ \A n1, n2 \in 1..Len(mm_wr) :
                MmWrAddrs[n1] = MmWrAddrs[n2] => n1 = n2
          /\ \A n \in 1..Len(mm_wr) :
                MmWrAddrs[n] \in 0..(mm_arg.ch_im_out - 1)
          /\ mm_pc = "done" =>
                /\ mm_ret = mm_arg.ch_im_out
                /\ Len(mm_wr) = mm_arg.ch_im_out
                /\ \A k \in 0..(h - 1) :
                      /\ mm_out[k]
                           = MmCodeU4(2 * k, 1) + 16 * MmCodeU4(2 * k + 1, 1)
                      /\ mm_out[h + k]
                           = MmCodeU4(2 * k, 2) + 16 * MmCodeU4(2 * k + 1, 2)

\* a u8 kernel has returned after several row pairs over a junk-filled
\* buffer, with a byte of the second stream holding two different non-zero
\* codes
Wit_C13 ==
    /\ family = "mm" /\ mm_arg.kernel \in {"u8_u4", "u8_u4_thr"}
    /\ mm_pc = "done" /\ mm_arg.ch_im_out >= 6 /\ mm_ret = mm_arg.ch_im_out
    /\ mm_arg.junk # 0
    /\ \E k \in 1..((mm_arg.ch_im_out \div 2) - 1) :
          LET b == mm_out[(mm_arg.ch_im_out \div 2) + k]
          IN  b % 16 # 0 /\ b \div 16 # 0 /\ b % 16 # b \div 16

\* the output bytes stored through the pointer named ptr
MmWrVia(ptr) == {mm_wr[n][2] : n \in {m \in 1..Len(mm_wr) : mm_wr[m][1] = ptr}}

\* C20: in the u2 kernel, for every even ch_im_out >= 2, no output byte is
\* written through both pOut and pOut2 = pOut + (ch_im_out >> 2), after the
\* call the u2 codes of every channel for both activation vectors are
\* present in the output, and the returned pointer lies past every byte
\* written.
CE_C20 ==
    (family = "mm" /\ mm_arg.kernel = "u4_u2" /\ mm_pc = "done") =>
      LET q == mm_arg.ch_im_out \div 4
      IN  /\ MmWrVia("pOut") \cap MmWrVia("pOut2") = {}
          /\ \A a \in MmWrVia("pOut") \cup MmWrVia("pOut2") : a < mm_ret
          /\ \A r \in 0..(mm_arg.ch_im_out - 1) :
                /\ Lane(mm_out[r \div 4], r % 4, 2) = MmCodeU2(r, 1)
                /\ Lane(mm_out[q + (r \div 4)], r % 4, 2) = MmCodeU2(r, 2)

-----------------------------------------------------------------------------
(* Properties of staging and output assembly of the depthwise kernel.       *)

\* whether the source coordinate of kernel position (ky, kx) at output
\* position (y, x) lies inside the input
DwInside(arg, y, x, ky, kx) ==
    /\ y * arg.stride - arg.top_padding + ky \in 0..(arg.dim_im_in - 1)
    /\ x * arg.stride - arg.left_padding + kx \in 0..(arg.dim_im_in - 1)

\* C14: when the channel computation of output position (y, x) starts, the
\* staging buffer holds exactly dim_kernel*dim_kernel*ch_im_in bytes written
\* from its start: slot ((ky*dim_kernel + kx)*ch_im_in + c) is
\* Im_in[((y*stride - top_padding + ky)*dim_im_in
\*        + (x*stride - left_padding + kx))*ch_im_in + c]
\* when that coordinate is inside the input and 0 otherwise, and the write
\* pointer is back at the buffer start for the next position.
Thm_C14 ==
    family = "dw" =>
      LET k  == dw_arg.dim_kernel
          ch == dw_arg.ch_im_in
      IN  /\ dw_wrBuf \subseteq 0..(k * k * ch - 1)
          /\ dw_pc = "im2col" => pBuffer = 0
          /\ dw_pc \in {"ch4", "ch1"} =>
               /\ dw_wrBuf = 0..(k * k * ch - 1)
               /\ pBuffer = k * k * ch
               /\ \A ky \in 0..(k - 1), kx \in 0..(k - 1), c \in 0..(ch - 1) :
                     colBuffer[(ky * k + kx) * ch + c]
                       = IF DwInside(dw_arg, i_out_y, i_out_x, ky, kx)
                         THEN dw_arg.Im_in[
                                ((i_out_y * dw_arg.stride - dw_arg.top_padding
                                    + ky) * dw_arg.dim_im_in
                                 + (i_out_x * dw_arg.stride
                                    - dw_arg.left_padding + kx)) * ch + c]
                         ELSE 0

\* the second position of a row is staged from a receptive field lying
\* entirely outside a non-zero input, over a buffer the first position had
\* filled with input codes
Wit_C14 ==
    /\ family = "dw" /\ dw_pc = "ch4" /\ i_out_x = 1 /\ i_out_y = 0
    /\ dw_arg.left_padding = 0 /\ dw_arg.top_padding = 0
    /\ \A s \in DOMAIN colBuffer : colBuffer[s] = 0
    /\ \A i \in DOMAIN dw_arg.Im_in : dw_arg.Im_in[i] # 0
    /\ \A ky \in 0..(dw_arg.dim_kernel - 1), kx \in 0..(dw_arg.dim_kernel - 1) :
          ~DwInside(dw_arg, 0, 1, ky, kx)

\* the call of the scenario: shapes, zero weights, zero zero points, biases
DwScenario ==
    /\ family = "dw"
    /\ dw_arg.dim_im_in = 5 /\ dw_arg.ch_im_in = 4 /\ dw_arg.ch_im_out = 4
    /\ dw_arg.dim_kernel = 3 /\ dw_arg.stride = 1 /\ dw_arg.dim_im_out = 5
    /\ dw_arg.left_padding = 1 /\ dw_arg.top_padding = 1
    /\ dw_arg.z_in = 0 /\ dw_arg.z_wt = 0
    /\ \A i \in DOMAIN dw_arg.wt : dw_arg.wt[i] = 0
    /\ dw_arg.bias = [c \in 0..3 |-> 10 * (c + 1)]

\* the call has returned success with every one of the 25 bytes 0xFF
DwAllMax ==
    /\ dw_status = "ARM_MATH_SUCCESS"
    /\ DOMAIN Im_out = 0..24
    /\ \A i \in 0..24 : Im_out[i] = 255

\* C15 as stated: with an all-zero threshold table - three breakpoints for
\* each of the four channels - the scenario returns success and each of the
\* 25 output bytes is 0xFF, for any input contents.
CE_C15 ==
    (DwScenario /\ dw_pc = "done"
       /\ \A i \in 0..11 : dw_arg.thresholds[i] = 0) => DwAllMax

\* C15, amended: with a threshold table of sixteen zero entries, four per
\* channel as the kernel indexes it, the scenario returns success and each
\* of the 25 output bytes is 0xFF, for any input contents.
Thm_C15 ==
    (DwScenario /\ dw_pc = "done"
       /\ \A i \in 0..15 : dw_arg.thresholds[i] = 0) => DwAllMax

\* the scenario has run to its end over a non-zero input and sixteen zero
\* thresholds, and the junk of the output is gone
Wit_C15 ==
    /\ DwScenario /\ dw_pc = "done" /\ DwAllMax
    /\ \A i \in 0..15 : dw_arg.thresholds[i] = 0
    /\ \E i \in 0..99 : dw_arg.Im_in[i] = 255
    /\ dw_arg.junk # 255 /\ dw_wrOut = 0..24

\* bytes of one output position: four u2 codes per byte
DwPosBytes(arg) == (arg.ch_im_out + 3) \div 4

\* C17: for every ch_im_out >= 1 the output pointer is advanced after each
\* output position, so positions never share or overwrite each other's
\* bytes: the code of channel c at position (y, x) is in bit lane 2*(c mod 4)
\* of a byte that holds codes of that position only.
CE_C17 ==
    (family = "dw" /\ ~DwSizeMismatch(dw_arg)) =>
      LET n   == i_out_y * dw_arg.dim_im_out + i_out_x
          bpp == DwPosBytes(dw_arg)
      IN  /\ dw_pc = "im2col" => dw_pOut = n * bpp
          /\ (dw_pc = "ch1" /\ rowCnt = 0) =>
                \A c \in 0..(dw_arg.ch_im_out - 1) :
                   Lane(Im_out[n * bpp + (c \div 4)], c % 4, 2)
                     = QuantU2(dw_acc[c + 1], dw_arg.thresholds, c)
          /\ dw_pc = "done" =>
                dw_wrOut = 0..(dw_arg.dim_im_out * dw_arg.dim_im_out * bpp - 1)

-----------------------------------------------------------------------------
(* arm_u2_to_int16_reordered: the claims about the converter.               *)

\* src[s]: the 2-bit code at bits 2*(s mod 4) of source byte floor(s/4)
CvSrc(s) == Lane(cv_arg.pSrc[s \div 4], s % 4, 2)

\* C19: every 16-element block the unrolled loop has stored is the
\* interleaving dst[2k] = src[k] - offset, dst[2k+1] = src[8+k] - offset
\* (k = 0..7) of the block's sixteen source codes, so each code of the block
\* appears exactly once, and for offset 0 the block stored by the else
\* branch is the block the if(offset) branch computes with offset 0.
Thm_C19 ==
    family = "cv" =>
        \A b \in 0..((cv_unrolled \div 16) - 1) :
            /\ \A k \in 0..7 :
                  /\ pDst[16 * b + 2 * k + 1]
                        = CvSrc(16 * b + k) - cv_arg.offset
                  /\ pDst[16 * b + 2 * k + 2]
                        = CvSrc(16 * b + 8 + k) - cv_arg.offset
            /\ cv_arg.offset = 0 =>
                  \A n \in 1..16 :
                      pDst[16 * b + n]
                        = CvBlockSub(SIMD32(cv_arg.pSrc, 4 * b), 0)[n]

\* two blocks stored with offset 255, the two halves of the first block
\* holding different codes at k = 0
Wit_C19 ==
    /\ family = "cv"
    /\ cv_unrolled = 32
    /\ cv_arg.offset = 255
    /\ CvSrc(0) # CvSrc(8)
    /\ pDst[1] = CvSrc(0) - 255
    /\ pDst[2] = CvSrc(8) - 255

\* the source code the remainder loop reads for its j-th element (j from 0):
\* bits 2j, 2j+1 of the word at pIn, the rotation returning to bit 0 after
\* sixteen elements
CvRemSrc(j) == CvSrc(cv_unrolled + (j % 16))

\* C16: every element written to pDst, by the unrolled loop or by the
\* remainder loop, equals its 2-bit source code minus offset.
CE_C16 ==
    family = "cv" =>
        /\ \A b \in 0..((cv_unrolled \div 16) - 1), k \in 0..7 :
              /\ pDst[16 * b + 2 * k + 1]
                    = CvSrc(16 * b + k) - cv_arg.offset
              /\ pDst[16 * b + 2 * k + 2]
                    = CvSrc(16 * b + 8 + k) - cv_arg.offset
        /\ \A j \in 0..(Len(pDst) - cv_unrolled - 1) :
              pDst[cv_unrolled + j + 1] = CvRemSrc(j) - cv_arg.offset

\* C18: at return exactly blockSize elements have been written, 16 *
\* floor(blockSize / 16) by the unrolled loop and blockSize mod 16 by the
\* remainder loop.
CE_C18 ==
    (family = "cv" /\ cv_pc = "done") =>
        /\ Len(pDst) = cv_arg.blockSize
        /\ cv_unrolled = 16 * (cv_arg.blockSize \div 16)
        /\ Len(pDst) - cv_unrolled = cv_arg.blockSize % 16

====
